---- MODULE Spec2Model ----
(***************************************************************************)
(* State machine of the BottomDrawer component (src/src/bottomDrawer.tsx). *)
(*                                                                         *)
(* React state (useState) is modelled twice: the value the handlers of the *)
(* last render closed over (modalVisible, currentDrawerIndex, ...) and the *)
(* value held by the state store after the setters called since then       *)
(* (pending).  Render copies the store into the closures and runs the      *)
(* effects whose dependencies changed.  Refs (lastPosition, currentIndex)  *)
(* and the Animated.Value are mutated in place.                            *)
(*                                                                         *)
(* Animated: starting an animation on a value stops the one in flight and  *)
(* calls its end callback synchronously with finished = false; an          *)
(* animation that runs to its end calls it with finished = true.           *)
(***************************************************************************)
EXTENDS Integers, Sequences, FiniteSets, TLC

\* ------------------------------------------------------------------ bounds
MaxSnapPoints == 2

\* ------------------------------------------------------- program constants
\* pixel values, scaled down: the screen is 8 units high, snap point i sits at 2 * i
screenHeight == 8
initialHeight == 3
safeTopOffset == 1

\* JavaScript's undefined (an array read out of range) and NaN (arithmetic on it)
Undefined == 0 - 1
NaN == 0 - 2

\* ------------------------------------------------------------------ inputs
\* the snap point list of length n: ascending pixel heights
SnapList(n) == [i \in 1..n |-> 2 * i]
SnapPointLists == {SnapList(n) : n \in 0..MaxSnapPoints}
Indices == (0 - 1)..MaxSnapPoints
Positions == {5}
SheetHeights == {initialHeight, 5}
Dys == {0 - 2, 0 - 1, 1, 2}

VARIABLES
    enableSnapping,         \* prop
    snapPoints,             \* prop
    initialIndex,           \* prop
    mounted,                \* the mount effect has run
    modalVisible,           \* useState, as closed over by the last render
    currentDrawerIndex,     \* useState, as closed over by the last render
    keyboardTriggerSource,  \* useState, as closed over by the last render
    keyboardOpen,           \* the keyboard hook's state, as of the last render
    pending,                \* the state store: the values the next render will see
    lastPosition,           \* useRef
    currentIndex,           \* useRef
    animatedHeight,         \* Animated.Value: its current value
    animation,              \* the animation in flight on animatedHeight
    lastOp                  \* the last handler run, its input and its outcome

props == <<enableSnapping, snapPoints, initialIndex>>
rendered == <<modalVisible, currentDrawerIndex, keyboardTriggerSource, keyboardOpen>>
vars == <<props, mounted, rendered, pending, lastPosition, currentIndex,
          animatedHeight, animation, lastOp>>

NoAnimation == [kind |-> "none", toValue |-> 0]

\* the render's closures are up to date with the state store
Rendered ==
    pending = [modalVisible |-> modalVisible,
               currentDrawerIndex |-> currentDrawerIndex,
               keyboardTriggerSource |-> keyboardTriggerSource,
               keyboardOpen |-> keyboardOpen]

\* --------------------------------------------------------- JavaScript values
\* snapPoints[index] of a 0-based array
At(index) ==
    IF index \in 0..(Len(snapPoints) - 1) THEN snapPoints[index + 1] ELSE Undefined

\* a - b on numbers
Minus(a, b) ==
    IF a \in {Undefined, NaN} \/ b \in {Undefined, NaN} THEN NaN ELSE a - b

\* the value of an Animated.Value between two rest values: somewhere on its way
Moving == 0 - 3

\* ------------------------------------------------------------ the handlers
\* The handlers are functions of a world w: the refs, the state store, the
\* animation in flight, the callbacks invoked so far and whether one threw.
World ==
    [lastPosition |-> lastPosition,
     currentIndex |-> currentIndex,
     state |-> pending,
     animation |-> animation,
     fired |-> {},
     raised |-> FALSE]

checkIfAvailableNoLowerBound(index) ==
    ~(~enableSnapping \/ Len(snapPoints) <= index)

checkIfAvailable(index) ==
    ~(~enableSnapping \/ Len(snapPoints) <= index \/ index < 0)

openCallbackAlways(w, finished) ==
    [w EXCEPT !.fired = @ \cup {"onOpen"}]

\* handleOpen's end callback
openCallback(w, finished) ==
    IF finished THEN [w EXCEPT !.fired = @ \cup {"onOpen"}] ELSE w

closeCallbackKeepsIndex(w, finished) ==
    [w EXCEPT !.fired = @ \cup {"onClose"},
              !.state.modalVisible = FALSE]

\* handleClose's end callback: it does not look at finished
closeCallback(w, finished) ==
    [w EXCEPT !.fired = @ \cup {"onClose"},
              !.state.modalVisible = FALSE,
              !.currentIndex = 0]

\* the end callback of the animation in flight
endCallback(w, finished) ==
    CASE w.animation.kind = "open" -> openCallback(w, finished)
      [] w.animation.kind = "close" -> closeCallback(w, finished)
      [] OTHER -> w

\* Animated.timing/spring(animatedHeight, {toValue}).start(callback)
start(w, kind, toValue) ==
    [endCallback(w, FALSE) EXCEPT !.animation = [kind |-> kind, toValue |-> toValue]]

handleOpen(w, sheetHeight) ==
    LET val == IF enableSnapping THEN At(initialIndex) ELSE sheetHeight
        w1 == [w EXCEPT !.lastPosition = val, !.state.modalVisible = TRUE]
    IN  start(w1, "open", Minus(screenHeight, val))

handleClose(w) == start(w, "close", screenHeight)

handleSnapToIndex(w, index) ==
    IF ~checkIfAvailable(index)
    THEN [w EXCEPT !.raised = TRUE]
    ELSE LET w1 == [w EXCEPT !.lastPosition = At(index),
                             !.currentIndex = index,
                             !.state.currentDrawerIndex = index]
         IN  start(w1, "spring", Minus(screenHeight, At(index)))

handleSnapToPositionUnguarded(w, visible, position, resetLastPosition) ==
    LET w1 == IF resetLastPosition THEN [w EXCEPT !.lastPosition = position] ELSE w
    IN  start(w1, "spring", Minus(screenHeight, position))

\* visible is the modalVisible the handler closed over
handleSnapToPosition(w, visible, position, resetLastPosition) ==
    IF ~visible
    THEN w
    ELSE LET w1 == IF resetLastPosition THEN [w EXCEPT !.lastPosition = position] ELSE w
         IN  start(w1, "spring", Minus(screenHeight, position))

onPanResponderMove(w, dy) ==
    IF dy < 0 - safeTopOffset /\ checkIfAvailable(w.currentIndex + 1)
    THEN handleSnapToIndex(w, w.currentIndex + 1)
    ELSE IF dy > safeTopOffset /\ checkIfAvailable(w.currentIndex - 1)
         THEN handleSnapToIndex(w, w.currentIndex - 1)
         ELSE w

onPanResponderReleaseToIndex(w) ==
    start(w, "release", Minus(screenHeight, At(w.currentIndex)))

\* a spring too; its kind tells the release's spring from a snap's
onPanResponderRelease(w) ==
    start(w, "release", Minus(screenHeight, w.lastPosition))

\* () => modalVisible: the modalVisible of the render that made the handle
handleIsOpen == modalVisible

findActiveInputInContentFocused == TRUE

\* the placeholder: it reports no input of the drawer's content as focused
findActiveInputInContent == FALSE

onKeyboardChange(w, isOpen) ==
    IF isOpen
    THEN [w EXCEPT !.state.keyboardTriggerSource =
                       IF findActiveInputInContent THEN "internal" ELSE "external"]
    ELSE [w EXCEPT !.state.keyboardTriggerSource = "null"]

\* the effect on [keyboardOpen, keyboardTriggerSource], run with the new render's values
keyboardEffect(w, kOpen, source) ==
    IF kOpen
    THEN IF source = "external" THEN handleSnapToIndex(w, 0)
         ELSE IF source = "internal" THEN handleSnapToIndex(w, 1)
         ELSE w
    ELSE w

\* ----------------------------------------------------------------- actions
\* write the world back and record the handler that ran
Commit(w, op, arg, flag) ==
    /\ lastPosition' = w.lastPosition
    /\ currentIndex' = w.currentIndex
    /\ pending' = w.state
    /\ animation' = w.animation
    /\ lastOp' = [op |-> op, arg |-> arg, flag |-> flag,
                  raised |-> w.raised, fired |-> w.fired]

Init ==
    /\ enableSnapping \in BOOLEAN
    /\ snapPoints \in SnapPointLists
    /\ initialIndex \in Indices
    /\ mounted = FALSE
    /\ modalVisible = FALSE
    /\ currentDrawerIndex = initialIndex
    /\ keyboardTriggerSource = "null"
    /\ keyboardOpen = FALSE
    /\ pending = [modalVisible |-> FALSE,
                  currentDrawerIndex |-> initialIndex,
                  keyboardTriggerSource |-> "null",
                  keyboardOpen |-> FALSE]
    /\ lastPosition = initialHeight
    /\ currentIndex = initialIndex
    /\ animatedHeight = screenHeight
    /\ animation = NoAnimation
    /\ lastOp = [op |-> "construct", arg |-> 0, flag |-> FALSE,
                 raised |-> FALSE, fired |-> {}]

\* useEffect(() => { openOnMount && handleOpen() }, [])
Mount ==
    /\ ~mounted
    /\ mounted' = TRUE
    /\ \E openOnMount \in BOOLEAN :
          Commit(IF openOnMount THEN handleOpen(World, initialHeight) ELSE World,
                 "mount", 0, openOnMount)
    /\ UNCHANGED <<props, rendered, animatedHeight>>

\* ref.open(height)
Open ==
    /\ mounted
    /\ \E h \in SheetHeights : Commit(handleOpen(World, h), "open", h, FALSE)
    /\ UNCHANGED <<props, mounted, rendered, animatedHeight>>

\* ref.close()
Close ==
    /\ mounted
    /\ Commit(handleClose(World), "close", 0, FALSE)
    /\ UNCHANGED <<props, mounted, rendered, animatedHeight>>

\* ref.snapToIndex(index)
SnapToIndex ==
    /\ mounted
    /\ \E i \in Indices : Commit(handleSnapToIndex(World, i), "snapToIndex", i, FALSE)
    /\ UNCHANGED <<props, mounted, rendered, animatedHeight>>

\* ref.snapToPosition(position, {resetLastPosition})
SnapToPosition ==
    /\ mounted
    /\ \E p \in Positions, r \in BOOLEAN :
          Commit(handleSnapToPosition(World, modalVisible, p, r), "snapToPosition", p, r)
    /\ UNCHANGED <<props, mounted, rendered, animatedHeight>>

\* ref.isOpen(): lastOp.flag holds what it returned
IsOpen ==
    /\ mounted
    /\ Commit(World, "isOpen", 0, handleIsOpen)
    /\ UNCHANGED <<props, mounted, rendered, animatedHeight>>

\* React re-renders: the closures see the store, and the keyboard effect runs
\* when one of its dependencies changed
Render ==
    /\ mounted
    /\ ~Rendered
    /\ modalVisible' = pending.modalVisible
    /\ currentDrawerIndex' = pending.currentDrawerIndex
    /\ keyboardTriggerSource' = pending.keyboardTriggerSource
    /\ keyboardOpen' = pending.keyboardOpen
    /\ IF pending.keyboardOpen # keyboardOpen
          \/ pending.keyboardTriggerSource # keyboardTriggerSource
       THEN Commit(keyboardEffect(World, pending.keyboardOpen,
                                  pending.keyboardTriggerSource),
                   "keyboardEffect", 0, FALSE)
       ELSE UNCHANGED <<pending, lastPosition, currentIndex, animation, lastOp>>
    /\ UNCHANGED <<props, mounted, animatedHeight>>

\* the animation in flight draws its first frame: the value leaves its rest value
Frame ==
    /\ mounted
    /\ Rendered
    /\ animation.kind # "none"
    /\ animatedHeight # Moving
    /\ animatedHeight # animation.toValue
    /\ animatedHeight' = Moving
    /\ UNCHANGED <<props, mounted, rendered, pending, lastPosition, currentIndex,
                   animation, lastOp>>

FinishOp(kind) ==
    CASE kind = "open" -> "finishOpen"
      [] kind = "close" -> "finishClose"
      [] kind = "release" -> "finishRelease"
      [] OTHER -> "finishSpring"

\* the animation in flight reaches its toValue: its end callback runs with finished = true
Finish ==
    /\ mounted
    /\ Rendered
    /\ animation.kind # "none"
    /\ animatedHeight' = animation.toValue
    /\ Commit([endCallback(World, TRUE) EXCEPT !.animation = NoAnimation],
              FinishOp(animation.kind), 0, FALSE)
    /\ UNCHANGED <<props, mounted, rendered>>

\* the drawer's handle and header can be touched when the drawer is on screen
OnScreen == animatedHeight # screenHeight

PanMove ==
    /\ mounted
    /\ Rendered
    /\ OnScreen
    /\ \E dy \in Dys : Commit(onPanResponderMove(World, dy), "panMove", dy, FALSE)
    /\ UNCHANGED <<props, mounted, rendered, animatedHeight>>

PanRelease ==
    /\ mounted
    /\ Rendered
    /\ OnScreen
    /\ Commit(onPanResponderRelease(World), "panRelease", 0, FALSE)
    /\ UNCHANGED <<props, mounted, rendered, animatedHeight>>

\* <Pressable onPress={() => handleSnapToIndex(1)}>, rendered when currentDrawerIndex === 0
PressHeader ==
    /\ mounted
    /\ Rendered
    /\ OnScreen
    /\ currentDrawerIndex = 0
    /\ Commit(handleSnapToIndex(World, 1), "pressHeader", 1, FALSE)
    /\ UNCHANGED <<props, mounted, rendered, animatedHeight>>

\* useBottomDrawerKeyboard on a keyboard-show event: it records keyboardOpen, reports
\* the change, and may reposition the drawer without committing the position
KeyboardShow ==
    /\ mounted
    /\ Rendered
    /\ \E reposition \in BOOLEAN, p \in Positions :
          LET w1 == [World EXCEPT !.state.keyboardOpen = TRUE]
              w2 == onKeyboardChange(w1, TRUE)
              w3 == IF reposition
                    THEN handleSnapToPosition(w2, modalVisible, p, FALSE)
                    ELSE w2
          IN  Commit(w3, "keyboardShow", 0, FALSE)
    /\ UNCHANGED <<props, mounted, rendered, animatedHeight>>

\* useBottomDrawerKeyboard on a keyboard-hide event: back to the committed position
KeyboardHide ==
    /\ mounted
    /\ Rendered
    /\ \E reposition \in BOOLEAN :
          LET w1 == [World EXCEPT !.state.keyboardOpen = FALSE]
              w2 == onKeyboardChange(w1, FALSE)
              w3 == IF reposition /\ lastPosition # Undefined
                    THEN handleSnapToPosition(w2, modalVisible, lastPosition, FALSE)
                    ELSE w2
          IN  Commit(w3, "keyboardHide", 0, FALSE)
    /\ UNCHANGED <<props, mounted, rendered, animatedHeight>>

Next ==
    \/ Mount
    \/ Open
    \/ Close
    \/ SnapToIndex
    \/ SnapToPosition
    \/ IsOpen
    \/ Render
    \/ Frame
    \/ Finish
    \/ PanMove
    \/ PanRelease
    \/ PressHeader
    \/ KeyboardShow
    \/ KeyboardHide

Spec == Init /\ [][Next]_vars

\* the component when its user never calls snapToPosition
NextNoSnapToPosition ==
    \/ Mount
    \/ Open
    \/ Close
    \/ SnapToIndex
    \/ IsOpen
    \/ Render
    \/ Frame
    \/ Finish
    \/ PanMove
    \/ PanRelease
    \/ PressHeader
    \/ KeyboardShow
    \/ KeyboardHide

SpecNoSnapToPosition == Init /\ [][NextNoSnapToPosition]_vars

\* ------------------------------------------------------------------ claims
\* index i names a snap point that snapping may use
InRange(i) == enableSnapping /\ 0 <= i /\ i < Len(snapPoints)

\* the offset of snap point i
OffsetOf(i) == screenHeight - snapPoints[i + 1]

\* the step runs the handler op: renders and animation frames leave lastOp alone,
\* and they are the steps that change what was rendered or the animated value
Handled(op) == lastOp'.op = op /\ UNCHANGED <<rendered, animatedHeight>>

\* C1: when an open() animation runs to completion with snapping enabled and an
\* initial index k, isOpen() returns true and the offset is screenHeight - snapPoints[k],
\* whatever preceded the open(), an interrupted close() included.
C1_OpenCompletesVisible ==
    (lastOp.op = "finishOpen" /\ InRange(initialIndex))
        => (modalVisible /\ animatedHeight = OffsetOf(initialIndex))

\* C2: onClose, visibility false and the index reset happen only when the close
\* animation completes, with the offset at screenHeight; a superseded close() has
\* none of these effects.
C2_CloseEffectsOnlyOnCompletion ==
    ("onClose" \in lastOp.fired)
        => (lastOp.op = "finishClose" /\ animatedHeight = screenHeight)

\* C3: for an index i in range with snapping enabled, snapToIndex(i) does not raise,
\* and right after it the current index is i, lastPosition is snapPoints[i] and the
\* animation targets screenHeight - snapPoints[i], in every state it is called in.
C3_SnapToIndexSets ==
    (lastOp.op = "snapToIndex" /\ InRange(lastOp.arg))
        => /\ ~lastOp.raised
           /\ currentIndex = lastOp.arg
           /\ pending.currentDrawerIndex = lastOp.arg
           /\ lastPosition = snapPoints[lastOp.arg + 1]
           /\ animation = [kind |-> "spring", toValue |-> OffsetOf(lastOp.arg)]

\* C4: for an index that is negative or >= snapPoints.length, and for every index
\* when snapping is disabled, snapToIndex raises and changes nothing: visibility,
\* both indices, lastPosition, the animated value and the animation in flight.
C4_SnapToIndexRejects ==
    [][(Handled("snapToIndex") /\ ~InRange(lastOp'.arg))
          => /\ lastOp'.raised
             /\ UNCHANGED <<rendered, pending, lastPosition, currentIndex,
                            animatedHeight, animation>>]_vars

C4_Witness ==
    /\ lastOp.op = "snapToIndex"
    /\ lastOp.raised
    /\ enableSnapping
    /\ lastOp.arg >= Len(snapPoints)
    /\ Len(snapPoints) > 0
    /\ modalVisible
    /\ animation.kind # "none"

\* C5: after a close() animation completes, isOpen() returns false (the store holds
\* false, and so does every render of it) and the current index is 0, whatever the
\* index was before.
C5_CloseCompletes ==
    (lastOp.op = "finishClose")
        => /\ currentIndex = 0
           /\ ~pending.modalVisible
           /\ (Rendered => ~modalVisible)

C5_Witness ==
    /\ lastOp.op = "finishClose"
    /\ Rendered
    /\ ~modalVisible
    /\ currentDrawerIndex = 1
    /\ currentIndex = 0

\* C6: only an explicit snapToIndex call raises: keyboard events, drags, the header
\* press, open(), close() and snapToPosition() never do, in any configuration.
C6_OnlySnapToIndexRaises ==
    lastOp.raised => lastOp.op = "snapToIndex"

\* C7: a keyboard-open event with source 'external' makes the current index 0, with
\* source 'internal' 1.
C7_KeyboardOpenSnaps ==
    (lastOp.op = "keyboardEffect" /\ keyboardOpen)
        => /\ (keyboardTriggerSource = "external" => currentIndex = 0)
           /\ (keyboardTriggerSource = "internal" => currentIndex = 1)

\* C8: snapToPosition on a drawer that is not visible starts no animation, raises
\* nothing and changes neither lastPosition, the index nor the animation, for every
\* position and both values of resetLastPosition.
C8_SnapToPositionHiddenNoop ==
    [][(Handled("snapToPosition") /\ ~modalVisible)
          => /\ ~lastOp'.raised
             /\ UNCHANGED <<rendered, pending, lastPosition, currentIndex,
                            animatedHeight, animation>>]_vars

C8_Witness ==
    /\ lastOp.op = "snapToPosition"
    /\ ~modalVisible
    /\ lastOp.flag
    /\ lastPosition # lastOp.arg
    /\ animation.kind = "open"

\* C9: snapToPosition(p, {resetLastPosition}) on a visible drawer targets
\* screenHeight - p, sets lastPosition to p exactly when resetLastPosition is true,
\* and never changes the current index or visibility.
C9_SnapToPositionFrame ==
    [][(Handled("snapToPosition") /\ modalVisible)
          => /\ animation' = [kind |-> "spring",
                              toValue |-> screenHeight - lastOp'.arg]
             /\ lastPosition' = (IF lastOp'.flag THEN lastOp'.arg ELSE lastPosition)
             /\ currentIndex' = currentIndex
             /\ pending'.currentDrawerIndex = pending.currentDrawerIndex
             /\ pending'.modalVisible = pending.modalVisible]_vars

\* C10: onOpen is invoked only by an open() animation that finished, never by one
\* that was superseded, and at most once per open(): the step that invokes it ends
\* the open animation.
C10_OnOpenOnlyWhenFinished ==
    [][("onOpen" \in lastOp'.fired /\ lastOp' # lastOp)
          => /\ animation.kind = "open"
             /\ lastOp'.op = "finishOpen"
             /\ animatedHeight' = animation.toValue
             /\ animation'.kind = "none"]_vars

C10_Witness ==
    /\ lastOp.op = "finishOpen"
    /\ "onOpen" \in lastOp.fired
    /\ modalVisible

\* C11: open(height) with snapping enabled targets screenHeight - snapPoints[initialIndex]
\* whatever the height; with snapping disabled it targets screenHeight - height, the
\* configured initialHeight when none is passed (the open on mount). Either way it
\* sets visibility true and lastPosition to the height it chose.
C11_OpenTargets ==
    LET opened == lastOp.op = "open" \/ (lastOp.op = "mount" /\ lastOp.flag)
        height == IF lastOp.op = "open" THEN lastOp.arg ELSE initialHeight
        val == IF enableSnapping THEN snapPoints[initialIndex + 1] ELSE height
    IN  (opened /\ (enableSnapping => InRange(initialIndex)))
            => /\ animation = [kind |-> "open", toValue |-> screenHeight - val]
               /\ lastPosition = val
               /\ pending.modalVisible

\* C12: isOpen() returns the visibility most recently set, at every point of any
\* sequence of operations, before the next render included.
C12_IsOpenIsCurrent ==
    (lastOp.op = "isOpen") => (lastOp.flag = pending.modalVisible)

\* C13: the header is rendered exactly when the current index is 0: the rendered
\* index agrees with the index that gestures use and close() resets.
C13_RenderedIndexAgrees ==
    Rendered => (currentDrawerIndex = currentIndex)

\* C14: a drag release settles the drawer on the position of the current snap index:
\* when the release's spring ends, the offset is screenHeight - snapPoints[current index]
\* (stated where the gesture index and the rendered index agree on the current index).
C14_ReleaseSettlesOnIndex ==
    (lastOp.op = "finishRelease" /\ InRange(currentIndex)
                                 /\ currentDrawerIndex = currentIndex)
        => animatedHeight = OffsetOf(currentIndex)

\* C14, amended: a drag release animates to screenHeight - lastPosition, and when its
\* spring ends the offset is screenHeight - lastPosition, the last committed position
\* (a snap point only if the last commit was a snap to an index).
C14_ReleaseSettlesOnLastPosition ==
    LET target == IF lastPosition = Undefined THEN NaN ELSE screenHeight - lastPosition
    IN  /\ (lastOp.op = "panRelease")
              => animation = [kind |-> "release", toValue |-> target]
        /\ (lastOp.op = "finishRelease")
              => (animatedHeight = target /\ animation.kind = "none")

C14_Witness ==
    /\ lastOp.op = "finishRelease"
    /\ modalVisible
    /\ InRange(currentIndex)
    /\ lastPosition = 5
    /\ animatedHeight = screenHeight - 5
    /\ animatedHeight # OffsetOf(currentIndex)

\* C15: a drag-move event changes the current index by at most one step and never
\* takes it out of range: up by one for dy < -safeTopOffset when the next index is
\* available, down by one for dy > safeTopOffset when the previous one is, and
\* otherwise the index, lastPosition and the animation are unchanged.
C15_DragStepsByOne ==
    [][Handled("panMove")
          => /\ IF lastOp'.arg < 0 - safeTopOffset /\ InRange(currentIndex + 1)
                THEN currentIndex' = currentIndex + 1
                ELSE IF lastOp'.arg > safeTopOffset /\ InRange(currentIndex - 1)
                     THEN currentIndex' = currentIndex - 1
                     ELSE /\ UNCHANGED <<currentIndex, lastPosition, animation>>
                          /\ pending'.currentDrawerIndex = pending.currentDrawerIndex
             /\ (InRange(currentIndex) => InRange(currentIndex'))]_vars

\* C16: every index used to look up a snap point is in range: no position recorded or
\* animated to comes from snapPoints read out of range, open() included.
C16_NoOutOfRangeLookup ==
    /\ lastPosition # Undefined
    /\ animation.toValue # NaN
    /\ animatedHeight # NaN

\* C17: the trigger source is set on every keyboard-show event and cleared on every
\* keyboard-hide event, it is never 'internal', and the keyboard effect never snaps
\* to index 1: when it snaps, it snaps to index 0.
C17_SourceNeverInternal ==
    /\ keyboardTriggerSource # "internal"
    /\ pending.keyboardTriggerSource # "internal"
    /\ (lastOp.op = "keyboardShow") => (pending.keyboardTriggerSource = "external")
    /\ (lastOp.op = "keyboardHide") => (pending.keyboardTriggerSource = "null")
    /\ (lastOp.op = "keyboardEffect" /\ keyboardOpen /\ ~lastOp.raised)
          => /\ currentIndex = 0
             /\ pending.currentDrawerIndex = 0
             /\ animation = [kind |-> "spring", toValue |-> OffsetOf(0)]

C17_Witness ==
    /\ lastOp.op = "keyboardEffect"
    /\ ~lastOp.raised
    /\ keyboardOpen
    /\ keyboardTriggerSource = "external"
    /\ modalVisible
    /\ Len(snapPoints) = 2
    /\ currentDrawerIndex = 1
    /\ currentIndex = 0

\* C18: a drawer that is not open stays hidden: when isOpen() is false and no close
\* animation is in flight, the drawer rests at, or is animating to, screenHeight.
C18_ClosedStaysHidden ==
    (Rendered /\ ~modalVisible /\ animation.kind # "close")
        => IF animation.kind = "none"
           THEN animatedHeight = screenHeight
           ELSE animation.toValue = screenHeight

\* C19: with snapping enabled, an initialIndex in range and no snapToPosition call,
\* whenever the drawer is visible lastPosition is snapPoints[current index].
C19_LastPositionIsSnapPoint ==
    (Rendered /\ modalVisible /\ InRange(initialIndex))
        => /\ InRange(currentIndex)
           /\ lastPosition = snapPoints[currentIndex + 1]

====
